---- MODULE Spec2Model ----
(***************************************************************************)
(* Model of image_captioning/training.py (compute_loss, train_step, fit,   *)
(* train, get_checkpoint_manager) and of DataSet.setup in                  *)
(* image_captioning/dataset.py.                                            *)
(*                                                                         *)
(* Two specifications share the module:                                    *)
(*   Spec      the epoch loop of fit, the checkpoint directory it writes,  *)
(*             process interruption and restart, and the tail of train;    *)
(*   StepSpec  one call of train_step on a target batch, unrolled one      *)
(*             decode step per action.                                     *)
(*                                                                         *)
(* Floating point values are exact fractions <<numerator, denominator>>.   *)
(* tf.train.Checkpoint / CheckpointManager are library objects: save() is  *)
(* one blocking call at training.py:170 and is modelled as one step        *)
(* (counter increment, write, retention sweep, state-file update).         *)
(***************************************************************************)
EXTENDS Integers, Sequences, FiniteSets, TLC

\* ------------------------------------------------------------------ bounds
MaxEpochs == 4
MaxKeep == 2
MaxInstances == 3
MaxBatchSize == 2
MaxStepLoss == 1
MaxBatch == 2
MaxSeqLen == 3
MaxToken == 2
MaxCE == 1

VARIABLES
  \* configuration and dataset (fixed for the life of a checkpoint directory)
  num_epochs, max_checkpoints, resume_from_checkpoint,
  num_instances, batch_size, drop_remainder,
  \* checkpoint directory: the manager's state file, oldest first
  checkpoints,
  \* the running process (fit / train)
  pc, err, ckpt_manager, latest_checkpoint, save_counter, resume_training,
  start_epoch, epoch, batch, total_loss, batch_losses,
  \* history: every completed save, in order, over all runs; saves of this run
  saved_log, run_saves, interrupted,
  \* one call of train_step
  target, s_pc, i, dec_input, loss, step_total_loss, calls

cfgvars == <<num_epochs, max_checkpoints, resume_from_checkpoint,
             num_instances, batch_size, drop_remainder>>
procvars == <<pc, err, ckpt_manager, latest_checkpoint, save_counter,
              resume_training, start_epoch, epoch, batch, total_loss,
              batch_losses, run_saves>>
fitvars == <<cfgvars, checkpoints, procvars, saved_log, interrupted>>
stepvars == <<target, s_pc, i, dec_input, loss, step_total_loss, calls>>
vars == <<fitvars, stepvars>>

\* ------------------------------------------------------------- arithmetic
RECURSIVE GCD(_, _)
GCD(a, b) == IF b = 0 THEN a ELSE GCD(b, a % b)

\* a fraction in lowest terms; n/0 (a tensor divided by zero) is kept as <<n, 0>>
Norm(f) ==
  IF f[2] = 0 THEN f
  ELSE IF f[1] = 0 THEN <<0, 1>>
  ELSE LET g == GCD(f[1], f[2]) IN <<f[1] \div g, f[2] \div g>>

FracAdd(f, g) == Norm(<<f[1] * g[2] + g[1] * f[2], f[2] * g[2]>>)

FracDivInt(f, n) == Norm(<<f[1], f[2] * n>>)

Zero == <<0, 1>>

RECURSIVE SeqSum(_)
SeqSum(s) == IF s = <<>> THEN 0 ELSE Head(s) + SeqSum(Tail(s))

\* ------------------------------------------------- checkpoint file names
\* "%s-%d" % (prefix, checkpoint_number): the number printed in decimal
RECURSIVE FormatInt(_)
FormatInt(n) == IF n < 10 THEN <<n>> ELSE Append(FormatInt(n \div 10), n % 10)

\* int(text) of a decimal digit string
RECURSIVE ParseInt(_)
ParseInt(d) ==
  IF Len(d) = 0 THEN 0
  ELSE 10 * ParseInt(SubSeq(d, 1, Len(d) - 1)) + d[Len(d)]

\* a checkpoint path as its '-'-separated fields: <<"./models/ckpt", digits>>
CheckpointsDir == "./models/"

CheckpointPath(n) == <<CheckpointsDir \o "ckpt", FormatInt(n)>>

\* latest_checkpoint.split('-')[-1]
SplitLast(path) == path[Len(path)]

NoCheckpoint == <<>>

\* a stored checkpoint: its path and the save_counter variable written in it
CkptFile(n) == [path |-> CheckpointPath(n), save_counter |-> n]

\* variant: the oldest tracked checkpoint is taken for the latest
LatestOfOldest(cps) == IF cps = <<>> THEN NoCheckpoint ELSE cps[1].path

\* CheckpointManager.latest_checkpoint, read from the state file
LatestOf(cps) == IF cps = <<>> THEN NoCheckpoint ELSE cps[Len(cps)].path

\* the save_counter restored by ckpt.restore(latest) (0 for a fresh Checkpoint)
RestoredCounter(cps) == IF cps = <<>> THEN 0 ELSE cps[Len(cps)].save_counter

\* variant: the checkpoint is numbered before the counter is advanced
NextCheckpointNumberStale(sc) == sc

\* CheckpointManager.save() without checkpoint_number: save_counter.assign_add(1)
NextCheckpointNumber(sc) == sc + 1

\* variant: retention evicts the newest checkpoint instead of the oldest
RECURSIVE SweepNewest(_, _)
SweepNewest(cps, k) ==
  IF Len(cps) > k THEN SweepNewest(SubSeq(cps, 1, Len(cps) - 1), k) ELSE cps

\* retention: while more than max_to_keep are tracked, delete the oldest
RECURSIVE Sweep(_, _)
Sweep(cps, k) == IF Len(cps) > k THEN Sweep(Tail(cps), k) ELSE cps

\* --------------------------------------------------------------- dataset
\* DataSet.setup: self.num_batches = self.num_instances // self.batch_size
NumBatches(n, b) == n \div b

\* number of batches one pass over dataset.batch(b, drop_remainder) yields
IterBatches(n, b, drop) ==
  IF drop \/ n % b = 0 THEN n \div b ELSE n \div b + 1

\* ------------------------------------------------------------- fit, train
Running == {"restore", "select", "epoch_head", "batches", "save", "returned"}

\* history: where the last interruption hit (pc, epoch, batches already done)
NotInterrupted == [at |-> "none", epoch |-> 0, batch |-> 0]

Init ==
  /\ num_epochs \in 1..MaxEpochs
  /\ max_checkpoints \in 1..MaxKeep
  /\ resume_from_checkpoint \in BOOLEAN
  /\ num_instances \in 0..MaxInstances
  /\ batch_size \in 1..MaxBatchSize
  /\ drop_remainder \in BOOLEAN
  /\ checkpoints = <<>>
  /\ pc = "idle" /\ err = "none"
  /\ ckpt_manager = FALSE /\ latest_checkpoint = NoCheckpoint
  /\ save_counter = 0 /\ resume_training = FALSE
  /\ start_epoch = 0 /\ epoch = 0 /\ batch = 0
  /\ total_loss = Zero /\ batch_losses = <<>>
  /\ saved_log = <<>> /\ run_saves = 0
  /\ interrupted = NotInterrupted
  /\ target = <<>> /\ s_pc = "off" /\ i = 0 /\ dec_input = <<>>
  /\ loss = Zero /\ step_total_loss = Zero /\ calls = <<>>

\* a fresh process: nothing of the previous process's memory survives
FreshProcess(p) ==
  /\ pc' = p /\ err' = "none"
  /\ ckpt_manager' = FALSE /\ latest_checkpoint' = NoCheckpoint
  /\ save_counter' = 0 /\ resume_training' = FALSE
  /\ start_epoch' = 0 /\ epoch' = 0 /\ batch' = 0
  /\ total_loss' = Zero /\ batch_losses' = <<>>
  /\ run_saves' = 0

\* train():189-190 and fit():119-128 -- the process is launched and enters fit
Start ==
  /\ pc \in {"idle", "reported", "raised"}
  /\ FreshProcess("restore")
  /\ UNCHANGED <<cfgvars, checkpoints, saved_log, interrupted, stepvars>>

\* fit():130-139
Restore ==
  /\ pc = "restore"
  /\ IF resume_from_checkpoint
       THEN /\ ckpt_manager' = TRUE
            /\ latest_checkpoint' = LatestOf(checkpoints)
            /\ save_counter' = RestoredCounter(checkpoints)
            /\ resume_training' = (LatestOf(checkpoints) # NoCheckpoint)
       ELSE UNCHANGED <<ckpt_manager, latest_checkpoint, save_counter,
                        resume_training>>
  /\ pc' = "select"
  /\ UNCHANGED <<cfgvars, checkpoints, saved_log, interrupted, stepvars, err, start_epoch,
                 epoch, batch, total_loss, batch_losses, run_saves>>

\* fit():141-148, and the first evaluation of range(start_epoch, num_epochs)
SelectStartEpoch ==
  /\ pc = "select"
  /\ start_epoch' = IF resume_training
                      THEN ParseInt(SplitLast(latest_checkpoint))
                      ELSE 0
  /\ epoch' = start_epoch'
  /\ batch_losses' = <<>>
  /\ pc' = "epoch_head"
  /\ UNCHANGED <<cfgvars, checkpoints, saved_log, interrupted, stepvars, err, ckpt_manager,
                 latest_checkpoint, save_counter, resume_training, batch,
                 total_loss, run_saves>>

\* fit():150-152 -- next value of the epoch range, or fall through to return
EpochHead ==
  /\ pc = "epoch_head"
  /\ IF epoch < num_epochs
       THEN /\ pc' = "batches" /\ total_loss' = Zero /\ batch' = 0
       ELSE /\ pc' = "returned" /\ UNCHANGED <<total_loss, batch>>
  /\ UNCHANGED <<cfgvars, checkpoints, saved_log, interrupted, stepvars, err, ckpt_manager,
                 latest_checkpoint, save_counter, resume_training, start_epoch,
                 epoch, batch_losses, run_saves>>

\* fit():155-162 -- one batch: t_loss is what train_step returned for it
TrainBatch ==
  /\ pc = "batches"
  /\ batch < IterBatches(num_instances, batch_size, drop_remainder)
  /\ \E t_loss \in 0..MaxStepLoss :
        total_loss' = FracAdd(total_loss, <<t_loss, 1>>)
  /\ batch' = batch + 1
  /\ UNCHANGED <<cfgvars, checkpoints, saved_log, interrupted, stepvars, pc, err,
                 ckpt_manager, latest_checkpoint, save_counter, resume_training,
                 start_epoch, epoch, batch_losses, run_saves>>

\* fit():163-169 -- the dataset is exhausted; total_loss / num_batches.
\* With no batch processed total_loss is still the Python int 0 and 0 / 0
\* raises; a tensor divided by 0 does not raise.
EpochEnd ==
  /\ pc = "batches"
  /\ batch = IterBatches(num_instances, batch_size, drop_remainder)
  /\ LET nb == NumBatches(num_instances, batch_size) IN
       IF nb = 0 /\ batch = 0
         THEN /\ pc' = "raised" /\ err' = "ZeroDivisionError"
              /\ UNCHANGED batch_losses
         ELSE /\ pc' = "save" /\ UNCHANGED err
              /\ batch_losses' = Append(batch_losses,
                                        FracDivInt(total_loss, nb))
  /\ UNCHANGED <<cfgvars, checkpoints, saved_log, interrupted, stepvars, ckpt_manager,
                 latest_checkpoint, save_counter, resume_training, start_epoch,
                 epoch, batch, total_loss, run_saves>>

\* fit():170 -- ckpt_manager.save(); ckpt_manager is bound only at line 132
Save ==
  /\ pc = "save"
  /\ IF ckpt_manager
       THEN LET n == NextCheckpointNumber(save_counter) IN
            /\ save_counter' = n
            /\ checkpoints' = Sweep(Append(checkpoints, CkptFile(n)),
                                    max_checkpoints)
            /\ latest_checkpoint' = CheckpointPath(n)
            /\ saved_log' = Append(saved_log,
                                   [epoch |-> epoch, path |-> CheckpointPath(n)])
            /\ run_saves' = run_saves + 1
            /\ epoch' = epoch + 1
            /\ pc' = "epoch_head" /\ UNCHANGED err
       ELSE /\ pc' = "raised" /\ err' = "UnboundLocalError"
            /\ UNCHANGED <<save_counter, checkpoints, latest_checkpoint,
                           saved_log, run_saves, epoch>>
  /\ UNCHANGED <<cfgvars, interrupted, stepvars, ckpt_manager, resume_training,
                 start_epoch, batch, total_loss, batch_losses>>

\* train():191-193 -- losses[-1] of the list fit returned
Report ==
  /\ pc = "returned"
  /\ IF batch_losses = <<>>
       THEN pc' = "raised" /\ err' = "IndexError"
       ELSE pc' = "reported" /\ UNCHANGED err
  /\ UNCHANGED <<cfgvars, checkpoints, saved_log, interrupted, stepvars, ckpt_manager,
                 latest_checkpoint, save_counter, resume_training, start_epoch,
                 epoch, batch, total_loss, batch_losses, run_saves>>

\* the process is interrupted between two steps; only the directory survives
Interrupt ==
  /\ pc \in Running
  /\ FreshProcess("idle")
  /\ interrupted' = [at |-> pc, epoch |-> epoch, batch |-> batch]
  /\ UNCHANGED <<cfgvars, checkpoints, saved_log, stepvars>>

Next ==
  \/ Start
  \/ Restore
  \/ SelectStartEpoch
  \/ EpochHead
  \/ TrainBatch
  \/ EpochEnd
  \/ Save
  \/ Report
  \/ Interrupt

Spec == Init /\ [][Next]_vars

\* ------------------------------------------------------------ train_step
\* tokenizer.word_index['<start>']; 0 is the pad id
StartToken == 1

\* range(1, sequence_length) starts at column 1
LoopStart == 1

\* target.shape[0], target.shape[1]; a target is [1..B -> [0..L-1 -> token]]
ActualBatchSize(tgt) == Len(tgt)

SequenceLength(tgt) == Cardinality(DOMAIN tgt[1])

\* variant: the decoder input is not replaced by the ground truth
NextDecInputStale(labels, previous) == previous

\* teacher forcing: dec_input = tf.expand_dims(target[:, i], 1)
NextDecInput(labels, previous) == labels

\* target[:, c]
Column(tgt, c) == [b \in 1..Len(tgt) |-> tgt[b][c]]

\* variant: the mean is taken over the unmasked positions only
compute_loss_unmasked_mean(labels, per_example) ==
  LET mask == [j \in 1..Len(labels) |-> IF labels[j] = 0 THEN 0 ELSE 1]
      loss_ == [j \in 1..Len(labels) |-> per_example[j] * mask[j]]
  IN  IF SeqSum(mask) = 0 THEN Zero ELSE Norm(<<SeqSum(loss_), SeqSum(mask)>>)

\* compute_loss: per_example is loss_function(labels, predictions) with
\* reduction='none', one value per example of the batch
compute_loss(labels, per_example) ==
  LET mask == [j \in 1..Len(labels) |-> IF labels[j] = 0 THEN 0 ELSE 1]
      loss_ == [j \in 1..Len(labels) |-> per_example[j] * mask[j]]
  IN  Norm(<<SeqSum(loss_), Len(loss_)>>)

Targets ==
  UNION {[1..B -> [0..(L - 1) -> 0..MaxToken]] :
           B \in 1..MaxBatch, L \in 0..MaxSeqLen}

StepInit ==
  /\ num_epochs = 1 /\ max_checkpoints = 1 /\ resume_from_checkpoint = TRUE
  /\ num_instances = 0 /\ batch_size = 1 /\ drop_remainder = FALSE
  /\ checkpoints = <<>>
  /\ pc = "off" /\ err = "none"
  /\ ckpt_manager = FALSE /\ latest_checkpoint = NoCheckpoint
  /\ save_counter = 0 /\ resume_training = FALSE
  /\ start_epoch = 0 /\ epoch = 0 /\ batch = 0
  /\ total_loss = Zero /\ batch_losses = <<>>
  /\ saved_log = <<>> /\ run_saves = 0
  /\ interrupted = NotInterrupted
  /\ target \in Targets
  /\ s_pc = "call" /\ i = 0 /\ dec_input = <<>>
  /\ loss = Zero /\ step_total_loss = Zero /\ calls = <<>>

\* train_step():74-91 -- loss = 0, hidden reset, dec_input = <start> per example
StepBegin ==
  /\ s_pc = "call"
  /\ loss' = Zero
  /\ dec_input' = [b \in 1..ActualBatchSize(target) |-> StartToken]
  /\ i' = LoopStart
  /\ s_pc' = "loop"
  /\ UNCHANGED <<fitvars, target, step_total_loss, calls>>

\* train_step():92-98 -- one iteration; ce is the decoder's per-example
\* cross entropy for this step (the decoder is opaque)
Decode ==
  /\ s_pc = "loop"
  /\ i < SequenceLength(target)
  /\ \E ce \in [1..ActualBatchSize(target) -> 0..MaxCE] :
       LET labels == Column(target, i)
           l == compute_loss(labels, ce)
       IN  /\ loss' = FracAdd(loss, l)
           /\ calls' = Append(calls, [i |-> i, input |-> dec_input,
                                      labels |-> labels, ce |-> ce, l |-> l])
           /\ dec_input' = NextDecInput(labels, dec_input)
  /\ i' = i + 1
  /\ UNCHANGED <<fitvars, target, s_pc, step_total_loss>>

\* train_step():100-105 -- loss / int(sequence_length), gradients, return.
\* With sequence_length = 0 loss is the Python int 0 and 0 / 0 raises.
StepFinish ==
  /\ s_pc = "loop"
  /\ i >= SequenceLength(target)
  /\ IF SequenceLength(target) = 0
       THEN s_pc' = "raised" /\ UNCHANGED step_total_loss
       ELSE /\ s_pc' = "done"
            /\ step_total_loss' = FracDivInt(loss, SequenceLength(target))
  /\ UNCHANGED <<fitvars, target, i, dec_input, loss, calls>>

StepNext ==
  \/ StepBegin
  \/ Decode
  \/ StepFinish

StepSpec == StepInit /\ [][StepNext]_vars

\* ================================================================ claims
PostSelect == {"epoch_head", "batches", "save", "returned", "reported", "raised"}

Last(s) == s[Len(s)]

\* the last min(k, Len(s)) elements of s
Suffix(s, k) == IF Len(s) <= k THEN s ELSE SubSeq(s, Len(s) - k + 1, Len(s))

\* C1 -- with resume_from_checkpoint enabled, over any interruptions and
\* restarts: start_epoch at each (re)start is the number of epochs whose save
\* completed (0, and no raise, when there is none); the epoch being run is
\* always the first unsaved one, entered with no batch done and a zero epoch
\* sum; epochs are saved in the order 0, 1, 2, ... with none repeated or
\* skipped.
C1_ResumeFromCompletedEpochs ==
  resume_from_checkpoint =>
    /\ \A k \in 1..Len(saved_log) : saved_log[k].epoch = k - 1
    /\ Len(saved_log) <= num_epochs
    /\ pc = "select" => (resume_training <=> saved_log # <<>>)
    /\ pc \in PostSelect => start_epoch + run_saves = Len(saved_log)
    /\ pc \in {"batches", "save"} =>
         epoch = Len(saved_log) /\ epoch < num_epochs
    /\ (pc = "epoch_head" /\ run_saves = 0) =>
         (epoch = start_epoch /\ batch = 0 /\ total_loss = Zero)
    /\ err \notin {"UnboundLocalError"}

\* C1 witness: a run interrupted in the middle of epoch e >= 1 has been
\* restarted and is at the first batch of that same epoch
C1_Witness ==
  /\ resume_from_checkpoint
  /\ interrupted.at = "batches" /\ interrupted.batch >= 1
  /\ interrupted.epoch >= 1
  /\ pc = "batches" /\ batch = 0 /\ run_saves = 0
  /\ epoch = interrupted.epoch /\ start_epoch = epoch

\* C2 -- for every configuration, resume_from_checkpoint true or false: the
\* step after an epoch's last batch and log is one successful save (unless
\* the process is interrupted there), and while epoch e is running exactly
\* e - start_epoch saves have been made in this run
C2_EveryEpochSaved ==
  [][ /\ (pc = "save" /\ pc' # "idle") =>
           (run_saves' = run_saves + 1 /\ pc' = "epoch_head")
      /\ pc \in {"batches", "save"} => run_saves = epoch - start_epoch
    ]_vars

\* C3 as stated -- the checkpoint saved at the end of the epoch of loop index
\* e is tagged e, and a restore that finds it latest starts at epoch e
C3_TaggedWithLoopIndex ==
  /\ \A k \in 1..Len(saved_log) :
       ParseInt(SplitLast(saved_log[k].path)) = saved_log[k].epoch
  /\ (pc \in PostSelect /\ resume_training) =>
       start_epoch + run_saves = Last(saved_log).epoch

\* C3 amended -- the checkpoint saved at the end of the epoch of loop index e
\* is tagged e + 1, and a restore that finds it latest reports
\* did_resume = true and start_epoch = e + 1
C3_TaggedWithCompletedCount ==
  /\ \A k \in 1..Len(saved_log) :
       ParseInt(SplitLast(saved_log[k].path)) = saved_log[k].epoch + 1
  /\ (pc \in PostSelect /\ resume_from_checkpoint /\ saved_log # <<>>
        /\ run_saves = 0) =>
       (resume_training /\ start_epoch = Last(saved_log).epoch + 1)

\* C3 witness: a restart found the checkpoint of epoch index 1 and resumed
C3_Witness ==
  /\ pc = "epoch_head" /\ run_saves = 0 /\ resume_training
  /\ Len(saved_log) = 2 /\ Last(saved_log).epoch = 1 /\ start_epoch = 2

\* C4 -- retention: the directory tracks at most max_checkpoints checkpoints,
\* they are exactly the most recently saved ones in save order, the latest
\* saved is always among them, and from max_checkpoints saves on exactly
\* max_checkpoints remain
C4_Retention ==
  /\ Len(checkpoints) <= max_checkpoints
  /\ [k \in 1..Len(checkpoints) |-> checkpoints[k].path]
       = Suffix([k \in 1..Len(saved_log) |-> saved_log[k].path],
                max_checkpoints)
  /\ saved_log # <<>> => LatestOf(checkpoints) = Last(saved_log).path
  /\ Len(saved_log) >= max_checkpoints => Len(checkpoints) = max_checkpoints

\* C4 witness: K + 3 saves have been made, over at least one restart
C4_Witness ==
  /\ Len(saved_log) = max_checkpoints + 3
  /\ Len(checkpoints) = max_checkpoints
  /\ interrupted.at # "none"

\* C9 -- the num_batches DataSet exposes is the number of batches one epoch
\* yields, so the recorded epoch mean is the epoch sum over the batches
\* processed, and the divisor is not zero when a batch was processed
C9_MeanOverProcessedBatches ==
  pc = "save" =>
    /\ NumBatches(num_instances, batch_size) = batch
    /\ Last(batch_losses) = FracDivInt(total_loss, batch)

\* C10 -- a run started when the latest checkpoint already records all
\* num_epochs epochs processes no batch, saves nothing, leaves the
\* checkpoints as they were and does not raise
C10_IdempotentAtCompletion ==
  (pc \in PostSelect /\ start_epoch >= num_epochs) =>
    /\ pc # "raised"
    /\ batch = 0 /\ run_saves = 0
    /\ Len(saved_log) = start_epoch

\* ------------------------------------------------ claims about train_step
StepReturned == s_pc = "done"

\* sum of the masked per-example losses, position by position
RECURSIVE MaskedSum(_, _)
MaskedSum(labels, ce) ==
  IF labels = <<>> THEN 0
  ELSE (IF Head(labels) # 0 THEN Head(ce) ELSE 0)
         + MaskedSum(Tail(labels), Tail(ce))

RECURSIVE SumOfCalls(_)
SumOfCalls(cs) ==
  IF cs = <<>> THEN Zero ELSE FracAdd(Head(cs).l, SumOfCalls(Tail(cs)))

\* C5 -- the k-th decode step is timestep i = k, scores target[:, k], and is
\* fed the start token (k = 1) or target[:, k-1]; column 0 is never scored;
\* on return with L >= 2 there were L - 1 steps and the accumulated loss is
\* the sum of their masked losses
C5_TeacherForcedUnroll ==
  /\ \A k \in 1..Len(calls) :
       /\ calls[k].i = k
       /\ calls[k].labels = Column(target, k)
       /\ calls[k].input =
            IF k = 1 THEN [b \in 1..Len(target) |-> StartToken]
                     ELSE Column(target, k - 1)
  /\ (StepReturned /\ SequenceLength(target) >= 2) =>
       /\ Len(calls) = SequenceLength(target) - 1
       /\ loss = SumOfCalls(calls)

\* C5 witness: a batch of length 3 returned after steps i = 1, 2, the second
\* fed ground-truth tokens that differ from the start token
C5_Witness ==
  /\ StepReturned /\ SequenceLength(target) = 3 /\ Len(calls) = 2
  /\ \E b \in 1..Len(target) : calls[2].input[b] \notin {StartToken}
  /\ loss # Zero

\* C6 -- total_loss is the accumulated loss divided by sequence_length - 1
C6_NormalisedByScoredSteps ==
  (StepReturned /\ SequenceLength(target) >= 2) =>
    step_total_loss = FracDivInt(loss, SequenceLength(target) - 1)

\* C7 -- compute_loss is the sum of the per-example losses at the positions
\* whose label is not 0, divided by the full batch size; 0 when every label
\* is 0
C7_MaskedMean ==
  \A k \in 1..Len(calls) :
    LET c == calls[k] IN
      /\ c.l[1] * Len(c.labels) = MaskedSum(c.labels, c.ce) * c.l[2]
      /\ c.l[2] > 0
      /\ (\A b \in 1..Len(c.labels) : c.labels[b] = 0) => c.l = Zero

\* C7 witness: a step with one padded and one real label, both with a
\* non-zero per-example loss
C7_Witness ==
  \E k \in 1..Len(calls) :
    LET c == calls[k] IN
      /\ Len(c.labels) = 2
      /\ c.labels[1] # 0 /\ c.labels[2] = 0
      /\ c.ce[1] > 0 /\ c.ce[2] > 0
      /\ c.l = <<1, 2>>

\* C8 -- a batch with sequence_length <= 1 makes no decode step, raises no
\* error and returns accumulated_loss = 0 and total_loss = 0
C8_DegenerateBatch ==
  (SequenceLength(target) <= 1 /\ s_pc \in {"done", "raised"}) =>
    /\ s_pc = "done"
    /\ calls = <<>>
    /\ loss = Zero /\ step_total_loss = Zero

====
